---- MODULE Spec2Model ----
(***************************************************************************)
(* Model of the Connections-sorter tile extraction pipeline.               *)
(*                                                                         *)
(* The repository holds three iterations of the browser application:      *)
(*   "app"  - src/app.js            (one OCR pass, positional clustering)  *)
(*   "p0"   - src/unnamed/part_000  (crop + threshold, seven OCR passes)   *)
(*   "p1"   - src/unnamed/part_001  (one OCR pass, bbox sort) followed by  *)
(*            the parameter-tuning script (processWithThreshold, ...).     *)
(* Strings are modelled as sequences of one-character strings so that     *)
(* length, trimming, splitting and the regular expressions of the source  *)
(* are computed rather than assumed.                                       *)
(***************************************************************************)
EXTENDS Integers, Sequences, FiniteSets, TLC

VARIABLES
  variant,        \* which iteration of the application is running
  tiles,          \* let tiles = []
  storage,        \* localStorage[STORAGE_KEY]: <<>> if absent, <<json>> if set
  pc,             \* the await at which handleImageUpload is suspended
  pass,           \* index of the recognition pass of the run
  allFoundWords,  \* let allFoundWords = []  (part_000)
  result,         \* const result = await worker.recognize(...)
  extractedTiles, \* const extractedTiles = extractTilesFromOCR(result)
  workers,        \* OCR workers this run created and has not terminated
  outcome,        \* how the last handleImageUpload ended
  stream,         \* history: validated candidates in pass-then-discovery order
  failed,         \* history: the pass whose engine call rejected (0 = none)
  branch,         \* history: the branch that ended extractTextFromImage
  decodable,      \* whether the selected file holds a decodable image
  created,        \* history: workers createWorker handed to this run
  recognized,     \* history: the image passed to each recognize call of the run
  draggedTile,    \* let draggedTile = null (an element of #tiles-grid)
  draggedIndex,   \* let draggedIndex = null
  touchCurrentTile, \* let touchCurrentTile = null
  touchClone,     \* let touchClone = null: 0, or the number of a drag clone
  attached,       \* the drag clones that are children of document.body
  touches,        \* touch points that started on a tile and have not ended
  tilesNull,      \* the property tiles["null"] of the current array
  rendered,       \* number of .tile elements in #tiles-grid
  shown,          \* the grid section is shown (showGrid) and not hidden again
  second,         \* a handleImageUpload started while another is suspended
  events,         \* number of user events dispatched so far
  handler,        \* history: the handler or continuation that ran last
  arg,            \* input of the pure function under check
  ret,            \* its return value
  phase           \* "input" before the function is applied, then its name

touchVars == <<touchClone, attached, touches>>
uiVars == <<draggedTile, draggedIndex, touchCurrentTile, touchVars, tilesNull,
            rendered, shown, second, events, handler>>
runVars == <<tiles, storage, pc, pass, allFoundWords, result, extractedTiles,
             workers, outcome, stream, failed, branch, decodable, created,
             recognized, uiVars>>
pureVars == <<arg, ret, phase>>
vars == <<variant, runVars, pureVars>>

Variants == {"app", "p0", "p1"}

(***************************************************************************)
(* Characters and the String methods the source uses.                      *)
(***************************************************************************)
UpperSeq == <<"A","B","C","D","E","F","G","H","I","J","K","L","M","N","O","P","Q","R","S","T","U","V","W","X","Y","Z">>
LowerSeq == <<"a","b","c","d","e","f","g","h","i","j","k","l","m","n","o","p","q","r","s","t","u","v","w","x","y","z">>
DigitSeq == <<"0","1","2","3","4","5","6","7","8","9">>

Min(S) == CHOOSE x \in S : \A y \in S : x <= y
Max(S) == CHOOSE x \in S : \A y \in S : y <= x

Range(s) == {s[i] : i \in DOMAIN s}
UpperChars == Range(UpperSeq)
LowerChars == Range(LowerSeq)
DigitChars == Range(DigitSeq)
\* \s of the regular expressions, and what String.prototype.trim strips
WhiteSpace == {" ", "\n", "\t", "\r"}
\* the characters `.' does not match
LineTerminators == {"\n", "\r"}

\* String.prototype.toUpperCase on one ASCII character
toUpperChar(c) ==
  IF c \in LowerChars
    THEN UpperSeq[CHOOSE i \in DOMAIN LowerSeq : LowerSeq[i] = c]
    ELSE c

toUpperCase(s) == [i \in DOMAIN s |-> toUpperChar(s[i])]

\* String.prototype.trim
trim(s) ==
  LET keep == {i \in DOMAIN s : s[i] \notin WhiteSpace}
  IN IF keep = {} THEN <<>>
     ELSE LET lo == CHOOSE i \in keep : \A j \in keep : i <= j
              hi == CHOOSE i \in keep : \A j \in keep : j <= i
          IN SubSeq(s, lo, hi)

\* the maximal runs of characters of class cls in s, as <<first, last>> pairs
maximalRuns(s, cls) ==
  LET starts == {a \in DOMAIN s : s[a] \in cls /\ (a = 1 \/ s[a - 1] \notin cls)}
      endOf(a) == CHOOSE b \in a..Len(s) :
                    /\ \A k \in a..b : s[k] \in cls
                    /\ (b = Len(s) \/ s[b + 1] \notin cls)
  IN {<<a, endOf(a)>> : a \in starts}

\* a set of disjoint <<first, last>> intervals in left-to-right order
orderedIntervals(ivs) ==
  [k \in 1..Cardinality(ivs) |->
     CHOOSE iv \in ivs : Cardinality({jv \in ivs : jv[1] < iv[1]}) = k - 1]

\* String.prototype.split: the pieces of s around the separator matches `cuts'
splitAt(s, cuts) ==
  LET starts == {<<1, 0>>} \cup {<<c[2] + 1, 0>> : c \in cuts}
      ordered == orderedIntervals(starts)
      endOf(st) == Min({c[1] - 1 : c \in {d \in cuts : d[1] >= st}} \cup {Len(s)})
  IN [k \in DOMAIN ordered |-> SubSeq(s, ordered[k][1], endOf(ordered[k][1]))]

\* text.split(/\s+/) (minRun = 1) and text.split(/\s{2,}/) (minRun = 2)
splitWhitespace(s, minRun) ==
  splitAt(s, {c \in maximalRuns(s, WhiteSpace) : c[2] - c[1] + 1 >= minRun})

\* text.split('\n')
splitLines(s) == splitAt(s, {<<i, i>> : i \in {j \in DOMAIN s : s[j] = "\n"}})

\* /^\d+$/
isAllDigits(s) == Len(s) >= 1 /\ \A i \in DOMAIN s : s[i] \in DigitChars

\* /^\d{1,2}:\d{2}$/
isClock(s) ==
  \E h \in 1..2 :
    /\ Len(s) = h + 3
    /\ \A i \in 1..h : s[i] \in DigitChars
    /\ s[h + 1] = ":"
    /\ s[h + 2] \in DigitChars
    /\ s[h + 3] \in DigitChars

\* /^(.)\1+$/
isRepeat(s) ==
  /\ Len(s) >= 2
  /\ s[1] \notin LineTerminators
  /\ \A i \in DOMAIN s : s[i] = s[1]

\* /[A-Z]/
hasLetter(s) == \E i \in DOMAIN s : s[i] \in UpperChars

(***************************************************************************)
(* isValidTileWord, one definition per iteration.                          *)
(***************************************************************************)
uiWords_app ==
  { <<"C","O","N","N","E","C","T","I","O","N","S">>, <<"C","O","N","N","E","C","T","I","O","N">>, <<"C","R","E","A","T","E">>,
    <<"S","H","U","F","F","L","E">>, <<"D","E","S","E","L","E","C","T">>, <<"S","U","B","M","I","T">>,
    <<"T","O","D","A","Y">>, <<"A","R","C","H","I","V","E">>, <<"P","L","A","Y">>,
    <<"N","Y","T">>, <<"G","A","M","E","S">>, <<"M","E","N","U">>,
    <<"G","A","M","E">>, <<"M","I","S","T","A","K","E","S">>, <<"R","E","M","A","I","N","I","N","G">>,
    <<"O","N","E">>, <<"T","W","O">>, <<"T","H","R","E","E">>,
    <<"F","O","U","R">>, <<"F","I","V","E">>, <<"N","E","X","T">>,
    <<"B","A","C","K">>, <<"S","H","A","R","E">>, <<"R","E","S","U","L","T","S">>,
    <<"V","I","E","W">>, <<"A","L","L">>, <<"O","F">>,
    <<"G","R","O","U","P","S">>, <<"G","R","O","U","P">>, <<"C","O","R","R","E","C","T">>,
    <<"I","N","C","O","R","R","E","C","T">>, <<"G","U","E","S","S">>, <<"G","U","E","S","S","E","S">>,
    <<"S","E","T","T","I","N","G","S">>, <<"H","E","L","P">>, <<"H","O","W">>,
    <<"T","O">>, <<"T","H","E">>, <<"A","N","D">>,
    <<"F","O","R">>, <<"W","I","T","H">>, <<"Y","O","U","R">>,
    <<"Y","O","U">>, <<"A","R","E">>, <<"W","A","S">>,
    <<"W","E","R","E">>, <<"B","E","E","N">>, <<"B","E","I","N","G">>,
    <<"A","M">>, <<"P","M">>, <<"J","A","N">>,
    <<"F","E","B">>, <<"M","A","R">>, <<"A","P","R">>,
    <<"M","A","Y">>, <<"J","U","N">>, <<"J","U","L">>,
    <<"A","U","G">>, <<"S","E","P">>, <<"O","C","T">>,
    <<"N","O","V">>, <<"D","E","C">> }

shortCommonWords ==
  { <<"A">>, <<"I">>, <<"A","N">>, <<"A","S">>, <<"A","T">>, <<"B","E">>,
    <<"B","Y">>, <<"D","O">>, <<"G","O">>, <<"H","E">>, <<"I","F">>, <<"I","N">>,
    <<"I","S">>, <<"I","T">>, <<"M","E">>, <<"M","Y">>, <<"N","O">>, <<"O","N">>,
    <<"O","R">>, <<"S","O">>, <<"U","P">>, <<"U","S">>, <<"W","E">> }

uiWords_p0 ==
  { <<"C","O","N","N","E","C","T","I","O","N","S">>, <<"C","O","N","N","E","C","T","I","O","N">>, <<"C","R","E","A","T","E">>,
    <<"S","H","U","F","F","L","E">>, <<"D","E","S","E","L","E","C","T">>, <<"S","U","B","M","I","T">>,
    <<"T","O","D","A","Y">>, <<"A","R","C","H","I","V","E">>, <<"P","L","A","Y">>,
    <<"N","Y","T">>, <<"G","A","M","E","S">>, <<"M","E","N","U">>,
    <<"G","A","M","E">>, <<"M","I","S","T","A","K","E","S">>, <<"R","E","M","A","I","N","I","N","G">>,
    <<"O","N","E">>, <<"T","W","O">>, <<"T","H","R","E","E">>,
    <<"F","O","U","R">>, <<"F","I","V","E">>, <<"N","E","X","T">>,
    <<"B","A","C","K">>, <<"S","H","A","R","E">>, <<"R","E","S","U","L","T","S">>,
    <<"V","I","E","W">>, <<"A","L","L">>, <<"G","R","O","U","P","S">>,
    <<"G","R","O","U","P">>, <<"C","O","R","R","E","C","T">>, <<"I","N","C","O","R","R","E","C","T">>,
    <<"G","U","E","S","S">>, <<"G","U","E","S","S","E","S">>, <<"S","E","T","T","I","N","G","S">>,
    <<"H","E","L","P">>, <<"H","O","W">>, <<"T","H","E">>,
    <<"A","N","D">>, <<"F","O","R">>, <<"W","I","T","H">>,
    <<"Y","O","U","R">>, <<"Y","O","U">>, <<"A","R","E">>,
    <<"W","A","S">>, <<"W","E","R","E">>, <<"B","E","E","N">>,
    <<"B","E","I","N","G">> }

uiWords_p1 ==
  { <<"C","O","N","N","E","C","T","I","O","N","S">>, <<"C","R","E","A","T","E">>, <<"S","H","U","F","F","L","E">>,
    <<"D","E","S","E","L","E","C","T">>, <<"S","U","B","M","I","T">>, <<"T","O","D","A","Y">>,
    <<"A","R","C","H","I","V","E">>, <<"P","L","A","Y">>, <<"N","Y","T">>,
    <<"G","A","M","E","S">>, <<"M","E","N","U">>, <<"M","I","S","T","A","K","E","S">>,
    <<"R","E","M","A","I","N","I","N","G">>, <<"O","N","E">>, <<"T","W","O">>,
    <<"T","H","R","E","E">>, <<"F","O","U","R">>, <<"N","E","X","T">>,
    <<"B","A","C","K">>, <<"S","H","A","R","E">>, <<"R","E","S","U","L","T","S">>,
    <<"V","I","E","W">> }


isValidTileWord_app(text) ==
  IF Len(text) = 0 THEN FALSE
  ELSE IF Len(text) > 20 THEN FALSE
  ELSE IF Len(text) < 2 THEN FALSE
  ELSE IF text \in uiWords_app THEN FALSE
  ELSE IF isClock(text) THEN FALSE
  ELSE IF isAllDigits(text) THEN FALSE
  ELSE IF ~hasLetter(text) THEN FALSE
  ELSE IF text \in shortCommonWords THEN FALSE
  ELSE TRUE

isValidTileWord_p0(text) ==
  IF Len(text) < 3 THEN FALSE
  ELSE IF Len(text) > 15 THEN FALSE
  ELSE IF text \in uiWords_p0 THEN FALSE
  ELSE IF isAllDigits(text) THEN FALSE
  ELSE IF isRepeat(text) THEN FALSE
  ELSE IF ~hasLetter(text) THEN FALSE
  ELSE TRUE

isValidTileWord_p1(text) ==
  IF Len(text) = 0 THEN FALSE
  ELSE IF Len(text) > 20 THEN FALSE
  ELSE IF text \in uiWords_p1 THEN FALSE
  ELSE IF ~hasLetter(text) THEN FALSE
  ELSE TRUE

isValidTileWord(v, text) ==
  CASE v = "app" -> isValidTileWord_app(text)
    [] v = "p0"  -> isValidTileWord_p0(text)
    [] v = "p1"  -> isValidTileWord_p1(text)

(***************************************************************************)
(* Text parsing and de-duplication.                                        *)
(***************************************************************************)
RECURSIVE Flatten(_)
Flatten(ss) == IF ss = <<>> THEN <<>> ELSE Head(ss) \o Flatten(Tail(ss))

\* pushIfAbsent without the includes test: every word is pushed
pushIfAbsent_keepAll(list, words) == list \o words

\* `if (!list.includes(word)) list.push(word)' for every word of words
RECURSIVE pushIfAbsent(_, _)
pushIfAbsent(list, words) ==
  IF words = <<>> THEN list
  ELSE pushIfAbsent(IF Head(words) \in Range(list) THEN list
                    ELSE Append(list, Head(words)),
                    Tail(words))

\* `const seen = new Set(); return xs.filter(x => !seen.has(x) && seen.add(x))'
removeDuplicates(xs) == pushIfAbsent(<<>>, xs)

\* one step of the global match of /[A-Z]{2,}/g: the leftmost position at or
\* after lastIndex where two capital letters start, extended greedily, and
\* the search resumed right after the match
RECURSIVE matchFrom(_, _, _)
matchFrom(s, lastIndex, minLen) ==
  LET starts == {i \in lastIndex..(Len(s) - minLen + 1) :
                   \A k \in i..(i + minLen - 1) : s[k] \in UpperChars}
  IN IF starts = {} THEN <<>>
     ELSE LET a == Min(starts)
              b == Max({j \in a..Len(s) : \A k \in a..j : s[k] \in UpperChars})
          IN <<SubSeq(s, a, b)>> \o matchFrom(s, b + 1, minLen)

\* the match with the quantifier {1,}: single letters are tokens too
matchLetterRuns_single(s) == matchFrom(s, 1, 1)

\* upperText.match(/[A-Z]{2,}/g) || []
matchLetterRuns(s) == matchFrom(s, 1, 2)

extractWordsFromText(text) == matchLetterRuns(toUpperCase(text))

\* the lines/parts loops shared by both extractTilesFallback definitions
fallbackWords(text, minRun, Valid(_)) ==
  LET lines == splitLines(text)
      partsOf(line) == splitWhitespace(toUpperCase(trim(line)), minRun)
      cleanedOf(line) == [j \in DOMAIN partsOf(line) |-> trim(partsOf(line)[j])]
  IN Flatten([i \in DOMAIN lines |-> SelectSeq(cleanedOf(lines[i]), Valid)])

extractTilesFallback_app(text) ==
  removeDuplicates(fallbackWords(text, 1, isValidTileWord_app))

extractTilesFallback_p1(text) ==
  removeDuplicates(fallbackWords(text, 2, isValidTileWord_p1))

\* the text-only route from raw OCR text to validated tokens in each iteration
\* (part_000 has no extractTilesFallback: it filters extractWordsFromText)
validWordsOfText(v, text) ==
  CASE v = "app" -> extractTilesFallback_app(text)
    [] v = "p0"  -> SelectSeq(extractWordsFromText(text), isValidTileWord_p0)
    [] v = "p1"  -> extractTilesFallback_p1(text)

(***************************************************************************)
(* IEEE-754 double arithmetic.  Every double the source computes here is   *)
(* a non-negative whole multiple of 2^-56 below 2^24 (literals such as     *)
(* 0.299, their products with pixel values and coordinates, and sums of    *)
(* these), so a value is modelled exactly as the natural number            *)
(* value * 2^56, written in base 2^16 as five limbs, least significant     *)
(* first.  Each operation is the exact result rounded to 53 significant    *)
(* bits, round to nearest, ties to even.                                   *)
(***************************************************************************)
\* an integer 0..65535 as a double: n * 2^56 = (n * 2^8) * 2^48
doubleOfInt(n) == <<0, 0, 0, (n * 256) % 65536, (n * 256) \div 65536>>

\* bit i (1 = least significant) of a value
bitAt(a, i) == (a[((i - 1) \div 16) + 1] \div (2 ^ ((i - 1) % 16))) % 2

bitLength(a) == Max({i \in 1..80 : bitAt(a, i) = 1} \cup {0})

\* the exact sum of two values
exactSum(a, b) ==
  LET carry[j \in 0..5] ==
        IF j = 0 THEN 0 ELSE (a[j] + b[j] + carry[j - 1]) \div 65536
  IN [j \in 1..5 |-> (a[j] + b[j] + carry[j - 1]) % 65536]

\* the exact product of a value and an integer 0..32767
exactProduct(a, k) ==
  LET carry[j \in 0..5] ==
        IF j = 0 THEN 0 ELSE (a[j] * k + carry[j - 1]) \div 65536
  IN [j \in 1..5 |-> (a[j] * k + carry[j - 1]) % 65536]

\* rounding of an exact result to a double: 53 significant bits, round to
\* nearest, ties to even; d is the number of bits that do not fit
roundToDouble(a) ==
  IF bitLength(a) <= 53 THEN a
  ELSE LET d == bitLength(a) - 53
           sticky == \E i \in 1..(d - 1) : bitAt(a, i) = 1
           roundUp == bitAt(a, d) = 1 /\ (sticky \/ bitAt(a, d + 1) = 1)
           low(j) == 16 * (j - 1)
           kept == [j \in 1..5 |->
                      IF low(j) + 16 <= d THEN 0
                      ELSE IF low(j) >= d THEN a[j]
                      ELSE (a[j] \div (2 ^ (d - low(j)))) * (2 ^ (d - low(j)))]
           ulp == [j \in 1..5 |->
                     IF j = (d \div 16) + 1 THEN 2 ^ (d % 16) ELSE 0]
       IN IF roundUp THEN exactSum(kept, ulp) ELSE kept

doubleTimes(a, k) == roundToDouble(exactProduct(a, k))
doublePlus(a, b) == roundToDouble(exactSum(a, b))

\* a > b
doubleGreater(a, b) ==
  \E j \in 1..5 : a[j] > b[j] /\ \A k \in (j + 1)..5 : a[k] = b[k]

\* a half-integer n / 2 as a double: n * 2^55 = (n * 2^7) * 2^48
doubleOfHalves(n) == <<0, 0, 0, (n * 128) % 65536, (n * 128) \div 65536>>

(***************************************************************************)
(* Positional extraction.  A recognized word is a record                   *)
(*   [text, confidence, bbox |-> [x0, y0, x1, y1]]  with integer pixel     *)
(* coordinates.  centerY = (y0 + y1) / 2 is kept doubled (centerY2) so     *)
(* that it stays an integer; every comparison of the source is between     *)
(* centers, so doubling both sides preserves it.                           *)
(***************************************************************************)
centerY2(w) == w.bbox.y0 + w.bbox.y1
centerX2(w) == w.bbox.x0 + w.bbox.x1

\* Array.prototype.sort((a, b) => key(a) - key(b)): ascending and stable
\* (ECMAScript 2019), so the element at input index i lands after exactly the
\* elements with a smaller key and the earlier elements with an equal key
sortByKey(ws, key(_)) ==
  LET rank(i) == 1 + Cardinality({j \in DOMAIN ws :
                        \/ key(ws[j]) < key(ws[i])
                        \/ key(ws[j]) = key(ws[i]) /\ j < i})
  IN [p \in DOMAIN ws |-> ws[CHOOSE i \in DOMAIN ws : rank(i) = p]]

\* the bands counted from the lowest word upwards
bandIndex_fromBottom(a2, range2, numRows) ==
  numRows - 1 - (1000 * numRows * a2) \div (1000 * range2 + 2 * numRows)

\* Math.floor((word.centerY - minY) / (rowHeight + 0.001)) with
\* rowHeight = range / numRows, in exact arithmetic on the doubled centers:
\*   (a/2) / (r/(2n) + 1/1000) = 1000 n a / (1000 r + 2 n).
\* The quotient is never an integer for a > 0 and stays at least
\* 1/(1000 r + 2 n) away from one, far more than the rounding error of the
\* double computation, so the floor agrees with the source's.
bandIndex(a2, range2, numRows) ==
  (1000 * numRows * a2) \div (1000 * range2 + 2 * numRows)

clusterIntoRows(words, numRows) ==
  IF Len(words) = 0 THEN [r \in 1..numRows |-> <<>>]
  ELSE
    LET sorted == sortByKey(words, centerY2)
        yPositions == {centerY2(sorted[i]) : i \in DOMAIN sorted}
        minY == Min(yPositions)
        maxY == Max(yPositions)
        range == maxY - minY
        rowIndex(w) == Min({numRows - 1, bandIndex(centerY2(w) - minY, range, numRows)})
        rows == [r \in 1..numRows |->
                   SelectSeq(sorted, LAMBDA w : rowIndex(w) = r - 1)]
        hasReasonableDistribution ==
          \A r \in 1..numRows : Len(rows[r]) >= 2 /\ Len(rows[r]) <= 6
        redistributedRows ==
          [r \in 1..numRows |->
             LET idx == {i \in DOMAIN sorted :
                           Min({numRows - 1, (i - 1) \div 4}) = r - 1}
             IN [k \in 1..Cardinality(idx) |-> sorted[Min(idx) + k - 1]]]
    IN IF ~hasReasonableDistribution /\ Len(sorted) >= 16
         THEN redistributedRows
         ELSE rows

\* the words kept by the first loop of extractTilesFromOCR (app.js)
collectWords_app(res) ==
  LET norm == [i \in DOMAIN res.words |->
                 [res.words[i] EXCEPT !.text = toUpperCase(trim(@))]]
  IN SelectSeq(norm, LAMBDA w : isValidTileWord_app(w.text) /\ w.confidence > 50)

\* the doubles nearest to 0.1 and 0.85
Limbs_0_1 == <<39322, 39321, 39321, 25, 0>>     \* 0x1.999999999999ap-4
Limbs_0_85 == <<39320, 39321, 39321, 217, 0>>   \* 0x1.b333333333333p-1

\* w.centerY >= minY + imageHeight * 0.1 && w.centerY <= minY + imageHeight * 0.85
inGridRegion(w, minY, imageHeight) ==
  LET gridMinY == doublePlus(doubleOfInt(minY), doubleTimes(Limbs_0_1, imageHeight))
      gridMaxY == doublePlus(doubleOfInt(minY), doubleTimes(Limbs_0_85, imageHeight))
      centerY == doubleOfHalves(centerY2(w))
  IN ~doubleGreater(gridMinY, centerY) /\ ~doubleGreater(centerY, gridMaxY)

\* sortRow leaving the row in clustering order
sortRow_unsorted(row) == row

\* row.sort((a, b) => a.centerX - b.centerX)
sortRow(row) == sortByKey(row, centerX2)

\* gridWords.length >= 16 ? gridWords : allWords, for a non-empty allWords
wordsToUse_app(allWords) ==
  LET maxY == Max({allWords[i].bbox.y1 : i \in DOMAIN allWords})
      minY == Min({allWords[i].bbox.y0 : i \in DOMAIN allWords})
      imageHeight == maxY - minY
      gridWords == SelectSeq(allWords,
                     LAMBDA w : inGridRegion(w, minY, imageHeight))
  IN IF Len(gridWords) >= 16 THEN gridWords ELSE allWords

\* the row kept whole
firstFour_all(row) == row

\* row.slice(0, 4)
firstFour(row) == SubSeq(row, 1, Min({4, Len(row)}))

\* extractTilesFromOCR (app.js) up to, not including, the duplicate filter:
\* the local `tiles'
rowTiles_app(res) ==
  LET allWords == collectWords_app(res)
  IN IF Len(allWords) = 0 THEN <<>>
     ELSE
       LET rows == clusterIntoRows(wordsToUse_app(allWords), 4)
           sortedRows == [r \in DOMAIN rows |-> sortRow(rows[r])]
       IN Flatten([r \in DOMAIN rows |->
                     [k \in DOMAIN firstFour(sortedRows[r]) |->
                        firstFour(sortedRows[r])[k].text]])

extractTilesFromOCR_app(res) == removeDuplicates(rowTiles_app(res))

\* extractTilesFromOCR (part_001): words sorted by (floor(y0 / 50), x0)
collectWords_p1(res) ==
  LET norm == [i \in DOMAIN res.words |->
                 [res.words[i] EXCEPT !.text = toUpperCase(trim(@))]]
  IN SelectSeq(norm, LAMBDA w : isValidTileWord_p1(w.text))

\* words.sort by (Math.floor(y0 / 50), x0): a stable sort by x0 followed by a
\* stable sort by the row band gives the comparator's order
rowBand_p1(w) == w.bbox.y0 \div 50
x0_p1(w) == w.bbox.x0

sortedTexts_p1(res) ==
  LET sorted == sortByKey(sortByKey(collectWords_p1(res), x0_p1), rowBand_p1)
  IN [i \in DOMAIN sorted |-> sorted[i].text]

extractTilesFromOCR_p1(res) ==
  removeDuplicates(SelectSeq(sortedTexts_p1(res), LAMBDA t : Len(t) > 0))

(***************************************************************************)
(* Sample recognition outputs.  The grid words are the `expected' answer   *)
(* set of the tuning script (part_001, lines 480-485).                     *)
(***************************************************************************)
expected ==
  << <<"C","R","E","D","I","T">>,
     <<"V","I","L","L","A","G","E","R">>,
     <<"C","A","L","L","I","N","G">>,
     <<"F","I","R","S","T">>,
     <<"B","U","S","I","N","E","S","S">>,
     <<"N","A","M","E">>,
     <<"R","E","P","O","R","T">>,
     <<"N","A","M","E","S","A","K","E">>,
     <<"D","E","C","I","D","E","R">>,
     <<"P","R","E","M","I","U","M">>,
     <<"C","R","A","F","T">>,
     <<"E","C","O","N","O","M","Y">>,
     <<"L","I","N","E">>,
     <<"C","I","T","E">>,
     <<"T","R","A","D","E">>,
     <<"R","E","F","E","R","E","N","C","E">> >>

\* a clean reading of the whole screenshot region
TextGrid ==
  << "C","r","e","a","t","e"," ","f","o","u","r"," ","g","r","o","u",
     "p","s"," ","o","f"," ","f","o","u","r","!","\n","C","R","E","D",
     "I","T"," ","V","I","L","L","A","G","E","R"," ","C","A","L","L",
     "I","N","G"," ","F","I","R","S","T","\n","B","U","S","I","N","E",
     "S","S"," ","N","A","M","E"," ","R","E","P","O","R","T"," ","N",
     "A","M","E","S","A","K","E","\n","D","E","C","I","D","E","R"," ",
     "P","R","E","M","I","U","M"," ","C","R","A","F","T"," ","E","C",
     "O","N","O","M","Y","\n","L","I","N","E"," ","C","I","T","E"," ",
     "T","R","A","D","E"," ","R","E","F","E","R","E","N","C","E","\n",
     "S","h","u","f","f","l","e"," ","D","e","s","e","l","e","c","t",
     " ","A","l","l"," ","S","u","b","m","i","t" >>

\* one grid row, mixed case, with a stray separator
TextRow ==
  << "c","r","e","d","i","t"," ","V","i","l","l","a","g","e","r"," ",
     "|"," ","C","A","L","L","I","N","G"," ","f","i","r","s","t" >>

\* a repeated token
TextDup ==
  << "C","A","T"," ","D","O","G"," ","C","A","T"," ","F","I","S","H" >>

\* interface chrome and noise only
TextNoise ==
  << "1","1",":","2","9","\n","E","E","E","E"," ","4","2"," ","S","H",
     "U","F","F","L","E" >>

\* chrome around one row of tiles
TextChrome ==
  << "S","H","U","F","F","L","E","\n","C","A","T"," ","D","O","G"," ",
     "B","I","R","D"," ","F","I","S","H","\n","1","1",":","2","9" >>

\* chrome only, one fragment per line
TextBlank ==
  <<"1","1",":","2","9","\n","4","2","\n","S","H","U","F","F","L","E">>

W_CAT == <<"C","A","T">>
W_DOG == <<"D","O","G">>
W_BIRD == <<"B","I","R","D">>
W_FISH == <<"F","I","S","H">>
W_SHUFFLE == <<"S","H","U","F","F","L","E">>
W_EEEE == <<"E","E","E","E">>
W_CREDIT == <<"C","R","E","D","I","T">>
W_VILLAGER == <<"V","I","L","L","A","G","E","R">>
W_EXTRA == <<"E","X","T","R","A">>
W_1129 == <<"1","1",":","2","9">>
W_42 == <<"4","2">>
W_TILE == <<"T","I","L","E"," ">>

\* a recognized word of the given text whose box has the given centre and size
wordAt(text, confidence, cx, cy, width, height) ==
  [text |-> text, confidence |-> confidence,
   bbox |-> [x0 |-> cx - width \div 2, y0 |-> cy - height \div 2,
             x1 |-> cx + width \div 2, y1 |-> cy + height \div 2]]

\* the k-th word of a 4x4 grid with the given spacing (k = 1..16, row-major)
gridWord(texts, k, confidence, dx, dy, height) ==
  wordAt(texts[k], confidence,
         100 + ((k - 1) % 4) * dx, 100 + ((k - 1) \div 4) * dy, 80, height)

\* an order in which the engine may report the 16 words: column-major, reversed
scrambled == <<16, 12, 8, 4, 15, 11, 7, 3, 14, 10, 6, 2, 13, 9, 5, 1>>

ResultGrid ==
  [text |-> TextGrid,
   words |-> [i \in 1..16 |-> gridWord(expected, scrambled[i], 90, 200, 120, 40)]]

\* the same reading with every word below the confidence gate
ResultLowConfidence ==
  [text |-> TextGrid,
   words |-> [i \in 1..16 |-> gridWord(expected, scrambled[i], 40, 200, 120, 40)]]

\* the grid plus a fifth word at the right end of the first row
ResultSeventeen ==
  [text |-> TextGrid,
   words |-> Append(ResultGrid.words, wordAt(W_EXTRA, 90, 900, 100, 80, 40))]

\* a partial reading: one row, lower case, plus a chrome word
ResultRow ==
  [text |-> TextRow,
   words |-> << wordAt(<<"f","i","r","s","t">>, 80, 700, 100, 80, 40),
                wordAt(W_CREDIT, 95, 100, 100, 80, 40),
                wordAt(<<" ","C","A","L","L","I","N","G">>, 70, 500, 100, 80, 40),
                wordAt(W_VILLAGER, 85, 300, 100, 80, 40),
                wordAt(W_SHUFFLE, 99, 100, 400, 80, 40) >>]

\* a reading with a repeated word
ResultDup ==
  [text |-> TextDup,
   words |-> << wordAt(W_CAT, 90, 100, 100, 80, 40),
                wordAt(W_DOG, 90, 300, 100, 80, 40),
                wordAt(W_CAT, 90, 500, 100, 80, 40),
                wordAt(W_FISH, 90, 700, 100, 80, 40) >>]

\* raw text but no word-level data
ResultTextOnly == [text |-> TextChrome, words |-> <<>>]

\* noise: a repeated letter among the chrome
ResultNoise ==
  [text |-> TextNoise,
   words |-> << wordAt(W_1129, 90, 100, 20, 80, 40),
                wordAt(W_EEEE, 30, 300, 20, 80, 40) >>]

\* nothing usable at all
ResultBlank ==
  [text |-> TextBlank,
   words |-> << wordAt(W_1129, 90, 100, 20, 80, 40),
                wordAt(W_42, 90, 300, 20, 80, 40),
                wordAt(W_SHUFFLE, 90, 100, 800, 80, 40) >>]

\* word-level data for the first grid row only, raw text for the whole screen
ResultPartial ==
  [text |-> TextGrid,
   words |-> [i \in 1..4 |-> gridWord(expected, i, 90, 200, 120, 40)]]

\* one positioned word, the rest of its row in the raw text only
ResultOneWord ==
  [text |-> TextChrome, words |-> << wordAt(W_CAT, 90, 100, 100, 80, 40) >>]

\* what recognize may resolve to; a result without data.words behaves like one
\* with an empty list (the `if (result.data.words)' guard skips the loop).
\* part_000 reads result.data.text only.
Results(v) ==
  IF v = "p0"
    THEN {[text |-> t, words |-> <<>>] :
            t \in {TextGrid, TextRow, TextDup, TextNoise}}
    ELSE {ResultGrid, ResultLowConfidence, ResultSeventeen, ResultRow,
          ResultDup, ResultTextOnly, ResultNoise, ResultBlank, ResultPartial,
          ResultOneWord}

NoResult == [text |-> <<>>, words |-> <<>>]

\* the results tried where the whole application runs: a full grid and, for
\* the single-pass iterations, a partial reading and an unusable one
AppResults(v) ==
  IF v = "p0"
    THEN {[text |-> TextGrid, words |-> <<>>]}
    ELSE {ResultGrid, ResultOneWord, ResultBlank}

(***************************************************************************)
(* Persistence: JSON.stringify of an array of strings.                     *)
(***************************************************************************)
\* Number.prototype.toString for a positive integer
RECURSIVE decimal(_)
decimal(n) ==
  IF n < 10 THEN <<DigitSeq[n + 1]>>
  ELSE Append(decimal(n \div 10), DigitSeq[(n % 10) + 1])

jsonEscape(c) ==
  CASE c = "\"" -> <<"\\", "\"">>
    [] c = "\\" -> <<"\\", "\\">>
    [] c = "\n" -> <<"\\", "n">>
    [] c = "\t" -> <<"\\", "t">>
    [] c = "\r" -> <<"\\", "r">>
    [] OTHER -> <<c>>

\* the values undefined and null, which are not strings
Undefined == <<"undefined">>
Null == <<"null">>

jsonString(s) ==
  <<"\"">> \o Flatten([i \in DOMAIN s |-> jsonEscape(s[i])]) \o <<"\"">>

\* an element of an array: undefined, null and holes are written as null
jsonElement(x) ==
  IF x \in {Undefined, Null} THEN <<"n", "u", "l", "l">> ELSE jsonString(x)

JSONstringify(list) ==
  <<"[">>
  \o Flatten([i \in DOMAIN list |->
               IF i = 1 THEN jsonElement(list[i])
               ELSE <<",">> \o jsonElement(list[i])])
  \o <<"]">>

\* JSON.parse of a text JSON.stringify wrote for an array of strings and
\* nulls: the elements are read left to right, each string up to its closing
\* quote with its escapes undone
jsonUnescape(c) ==
  CASE c = "n" -> "\n"
    [] c = "t" -> "\t"
    [] c = "r" -> "\r"
    [] OTHER -> c

RECURSIVE closingQuote(_, _)
closingQuote(s, j) ==
  IF s[j] = "\"" THEN j
  ELSE IF s[j] = "\\" THEN closingQuote(s, j + 2)
  ELSE closingQuote(s, j + 1)

RECURSIVE unescapeFrom(_, _)
unescapeFrom(s, i) ==
  IF i > Len(s) THEN <<>>
  ELSE IF s[i] = "\\" THEN <<jsonUnescape(s[i + 1])>> \o unescapeFrom(s, i + 2)
  ELSE <<s[i]>> \o unescapeFrom(s, i + 1)

RECURSIVE parseElements(_, _)
parseElements(s, i) ==
  LET rest(k) == IF s[k] = "," THEN parseElements(s, k + 1) ELSE <<>>
  IN IF s[i] = "\""
       THEN LET j == closingQuote(s, i + 1)
            IN <<unescapeFrom(SubSeq(s, i + 1, j - 1), 1)>> \o rest(j + 1)
       ELSE <<Null>> \o rest(i + 4)

JSONparse(s) == IF Len(s) = 2 THEN <<>> ELSE parseElements(s, 2)

(***************************************************************************)
(* Reconciliation: the branches that end extractTextFromImage.             *)
(***************************************************************************)
\* `TILE ${tiles.length + 1}'
placeholder(n) == W_TILE \o decimal(n)

\* padTiles numbering from the length before the push
RECURSIVE padTiles_lengthBefore(_)
padTiles_lengthBefore(list) ==
  IF Len(list) < 16
    THEN padTiles_lengthBefore(Append(list, placeholder(Len(list))))
    ELSE list

\* while (tiles.length < 16) tiles.push(`TILE ${tiles.length + 1}`)
RECURSIVE padTiles(_)
padTiles(list) ==
  IF Len(list) < 16 THEN padTiles(Append(list, placeholder(Len(list) + 1)))
  ELSE list

\* slice16 without the end index
slice16_unbounded(list) == list

\* Array.prototype.slice(0, 16)
slice16(list) == SubSeq(list, 1, Min({16, Len(list)}))

Thrown == [branch |-> "throw", tiles |-> <<>>]

\* chooseTiles_app padding an empty list instead of throwing
chooseTiles_app_padEmpty(extracted, fallbackTiles) ==
  IF Len(extracted) < 16
    THEN IF Len(fallbackTiles) >= 16
           THEN [branch |-> "fallback", tiles |-> slice16(fallbackTiles)]
           ELSE [branch |-> "pad", tiles |-> padTiles(extracted)]
    ELSE [branch |-> "truncate", tiles |-> slice16(extracted)]

\* app.js lines 113-131 and part_001 lines 109-127 (identical)
chooseTiles_app(extracted, fallbackTiles) ==
  IF Len(extracted) < 16
    THEN IF Len(fallbackTiles) >= 16
           THEN [branch |-> "fallback", tiles |-> slice16(fallbackTiles)]
         ELSE IF Len(extracted) > 0
           THEN [branch |-> "pad", tiles |-> padTiles(extracted)]
         ELSE Thrown
    ELSE [branch |-> "truncate", tiles |-> slice16(extracted)]

\* chooseTiles_p0 keeping the last 16 words instead of the first 16
chooseTiles_p0_last16(found) ==
  IF Len(found) >= 16
    THEN [branch |-> "truncate", tiles |-> SubSeq(found, Len(found) - 15, Len(found))]
  ELSE IF Len(found) > 0
    THEN [branch |-> "pad", tiles |-> padTiles(found)]
  ELSE Thrown

\* part_000 lines 169-179
chooseTiles_p0(found) ==
  IF Len(found) >= 16
    THEN [branch |-> "truncate", tiles |-> slice16(found)]
  ELSE IF Len(found) > 0
    THEN [branch |-> "pad", tiles |-> padTiles(found)]
  ELSE Thrown

(***************************************************************************)
(* The upload handler as a state machine.  handleImageUpload runs until    *)
(* its first await and is then resumed once per settled promise; each      *)
(* action below is one such resumption, from the await that settled to the *)
(* next await (or to the end of the handler).                              *)
(***************************************************************************)
\* part_000 runs PSM 3, 6, 11 on the full grid and then PSM 7 on rows 0..3;
\* app.js and part_001 run a single recognition
pageSegModes(v) ==
  IF v = "p0" THEN <<"3", "6", "11", "7", "7", "7", "7">> ELSE <<"default">>

numPasses(v) == Len(pageSegModes(v))

\* the validated candidates a result contributes, in discovery order
candidatesOf(v, res) ==
  CASE v = "app" -> rowTiles_app(res)
    [] v = "p0"  -> SelectSeq(extractWordsFromText(res.text), isValidTileWord_p0)
    [] v = "p1"  -> sortedTexts_p1(res)

extractTilesFromOCR(v, res) ==
  IF v = "app" THEN extractTilesFromOCR_app(res) ELSE extractTilesFromOCR_p1(res)

extractTilesFallback(v, text) ==
  IF v = "app" THEN extractTilesFallback_app(text) ELSE extractTilesFallback_p1(text)

\* the image a pass hands to worker.recognize
imageOfPass(v, k) ==
  IF v = "p0" THEN (IF k <= 3 THEN "threshCanvas" ELSE "rowCanvas")
  ELSE "imageData"

\* what the engine may resolve to in this behaviour
RecognizeResults == IF phase = "app" THEN AppResults(variant) ELSE Results(variant)

\* lines 113-131 of app.js (109-127 of part_001, 169-179 of part_000)
reconcile(v, found, extracted, res) ==
  IF v = "p0" THEN chooseTiles_p0(found)
  ELSE chooseTiles_app(extracted,
                       IF Len(extracted) < 16
                         THEN extractTilesFallback(v, res.text)
                         ELSE <<>>)

\* no element (null), or an element that is no longer in #tiles-grid
NoTile == -1
Detached == 16
NullIndex == -1
NoClone == 0

\* the state shared by every handler that a run's completion may change
sharedVars == <<tiles, storage, tilesNull, rendered, shown, draggedTile,
                touchCurrentTile>>

clearState == tiles' = <<>> /\ tilesNull' = Undefined /\ storage' = <<>>

saveState == storage' = <<JSONstringify(tiles')>>

\* tiles.forEach(createTileElement) stops at the first entry that is not a
\* string (text.length throws); holes of a sparse array only precede one
renderCount(list) ==
  LET bad == {i \in DOMAIN list : list[i] \in {Undefined, Null}}
  IN IF bad = {} THEN Len(list) ELSE Min(bad) - 1

\* an element held by a handler once #tiles-grid has been refilled
detach(element) == IF element = NoTile THEN NoTile ELSE Detached

\* renderTiles: #tiles-grid is emptied and refilled, so an element held in
\* draggedTile or touchCurrentTile is no longer one of its children
renderTiles ==
  /\ rendered' = renderCount(tiles')
  /\ draggedTile' = detach(draggedTile)
  /\ touchCurrentTile' = detach(touchCurrentTile)

\* tiles = ...; saveState(); hideProcessing(); showGrid(); renderTiles()
storeTiles(list) ==
  /\ tiles' = list
  /\ tilesNull' = Undefined
  /\ saveState
  /\ shown' = TRUE
  /\ renderTiles

\* the catch blocks: extractTextFromImage rethrows, handleImageUpload reports
\* the error and returns; nothing is assigned to tiles or written to storage
Rejected ==
  /\ pc' = "idle"
  /\ outcome' = "error"
  /\ UNCHANGED sharedVars

\* the end of extractTextFromImage once the candidates are known
Finish(choice) ==
  IF choice.branch = "throw"
    THEN Rejected
    ELSE /\ storeTiles(choice.tiles)
         /\ pc' = "idle"
         /\ outcome' = "ok"

\* change event of the file input with a file selected
handleImageUpload ==
  /\ pc = "idle"
  /\ clearState
  /\ shown' = FALSE
  /\ pc' = "loadImage"
  /\ outcome' = "pending"
  /\ pass' = 0
  /\ allFoundWords' = <<>>
  /\ result' = NoResult
  /\ extractedTiles' = <<>>
  /\ stream' = <<>>
  /\ failed' = 0
  /\ branch' = "none"
  /\ workers' = 0
  /\ decodable' \in BOOLEAN
  /\ created' = 0
  /\ recognized' = <<>>
  /\ UNCHANGED <<variant, rendered, draggedTile, touchCurrentTile,
                 draggedIndex, second, touchVars, pureVars>>

\* await loadImage(file): FileReader onload / onerror; readAsDataURL reads the
\* bytes of any file, image or not
loadImageSettled ==
  /\ pc = "loadImage"
  /\ \E ok \in BOOLEAN :
       IF ok
         THEN /\ pc' = IF variant = "p0" THEN "loadImageElement" ELSE "createWorker"
              /\ pass' = IF variant = "p0" THEN 0 ELSE 1
              /\ UNCHANGED <<sharedVars, outcome>>
         ELSE Rejected /\ UNCHANGED pass
  /\ UNCHANGED <<variant, allFoundWords, result, extractedTiles, workers,
                 stream, failed, branch, decodable, created, recognized,
                 draggedIndex, second, touchVars, pureVars>>

\* await loadImageElement(imageData) (part_000): Image onload / onerror; on
\* success the crop and the threshold run and the first worker is requested
loadImageElementSettled ==
  /\ pc = "loadImageElement"
  /\ \E ok \in {TRUE, FALSE} \ (IF decodable THEN {} ELSE {TRUE}) :
       IF ok
         THEN /\ pc' = "createWorker"
              /\ pass' = 1
              /\ allFoundWords' = <<>>
              /\ UNCHANGED <<sharedVars, outcome>>
         ELSE Rejected /\ UNCHANGED <<pass, allFoundWords>>
  /\ UNCHANGED <<variant, result, extractedTiles, workers, stream, failed,
                 branch, decodable, created, recognized, draggedIndex, second,
                 touchVars, pureVars>>

\* await Tesseract.createWorker('eng')
createWorkerSettled ==
  /\ pc = "createWorker"
  /\ \E ok \in BOOLEAN :
       IF ok
         THEN /\ workers' = workers + 1
              /\ created' = created + 1
              /\ pc' = "setParameters"
              /\ UNCHANGED <<sharedVars, outcome>>
         ELSE Rejected /\ UNCHANGED <<workers, created>>
  /\ UNCHANGED <<variant, pass, allFoundWords, result, extractedTiles, stream,
                 failed, branch, decodable, recognized, draggedIndex, second,
                 touchVars, pureVars>>

\* await worker.setParameters(...); on success worker.recognize is called
setParametersSettled ==
  /\ pc = "setParameters"
  /\ \E ok \in BOOLEAN :
       IF ok
         THEN /\ pc' = "recognize"
              /\ recognized' = Append(recognized, imageOfPass(variant, pass))
              /\ UNCHANGED <<sharedVars, outcome>>
         ELSE Rejected /\ UNCHANGED recognized
  /\ UNCHANGED <<variant, pass, allFoundWords, result, extractedTiles, workers,
                 stream, failed, branch, decodable, created, draggedIndex,
                 second, touchVars, pureVars>>

\* await worker.recognize(...): the engine resolves with some result, which
\* takes an image it can decode, or rejects; app.js and part_001 call
\* extractTilesFromOCR before awaiting terminate
recognizeSettled ==
  /\ pc = "recognize"
  /\ \/ /\ decodable
        /\ \E res \in RecognizeResults :
             /\ result' = res
             /\ extractedTiles' =
                  IF variant = "p0" THEN <<>> ELSE extractTilesFromOCR(variant, res)
             /\ stream' = IF variant = "p0" THEN stream ELSE candidatesOf(variant, res)
             /\ pc' = "terminate"
             /\ UNCHANGED <<sharedVars, outcome, failed>>
     \/ /\ Rejected
        /\ failed' = pass
        /\ UNCHANGED <<result, extractedTiles, stream>>
  /\ UNCHANGED <<variant, pass, allFoundWords, workers, branch, decodable,
                 created, recognized, draggedIndex, second,
                 touchVars, pureVars>>

\* await worker.terminate(), then the rest of the pass: part_000 merges the
\* pass's words and starts the next pass or reconciles; app.js and part_001
\* reconcile with the raw-text fallback
terminateSettled ==
  /\ pc = "terminate"
  /\ \E ok \in BOOLEAN :
       IF ~ok
         THEN /\ Rejected
              /\ UNCHANGED <<workers, pass, allFoundWords, stream, branch>>
       ELSE IF variant = "p0"
         THEN LET words == candidatesOf("p0", result)
                  merged == pushIfAbsent(allFoundWords, words)
                  choice == reconcile("p0", merged, extractedTiles, result)
              IN /\ workers' = workers - 1
                 /\ allFoundWords' = merged
                 /\ stream' = stream \o words
                 /\ IF pass < numPasses("p0")
                      THEN /\ pass' = pass + 1
                           /\ pc' = "createWorker"
                           /\ UNCHANGED <<sharedVars, outcome, branch>>
                      ELSE /\ Finish(choice)
                           /\ branch' = choice.branch
                           /\ UNCHANGED pass
         ELSE LET choice == reconcile(variant, allFoundWords, extractedTiles, result)
              IN /\ workers' = workers - 1
                 /\ Finish(choice)
                 /\ branch' = choice.branch
                 /\ UNCHANGED <<pass, allFoundWords, stream>>
  /\ UNCHANGED <<variant, result, extractedTiles, failed, decodable, created,
                 recognized, draggedIndex, second, touchVars, pureVars>>

\* no second upload is in flight
SecondIdle == [pc |-> "idle"]

\* the page right after its script ran with nothing in storage
UiIdle ==
  /\ draggedTile = NoTile
  /\ draggedIndex = NullIndex
  /\ touchCurrentTile = NoTile
  /\ touchClone = NoClone
  /\ attached = {}
  /\ touches = 0
  /\ tilesNull = Undefined
  /\ rendered = 0
  /\ shown = FALSE
  /\ second = SecondIdle
  /\ events = 0
  /\ handler = "none"

\* no run has started: the page as loaded with nothing in storage
RunIdle ==
  /\ tiles = <<>>
  /\ storage = <<>>
  /\ pc = "idle"
  /\ pass = 0
  /\ allFoundWords = <<>>
  /\ result = NoResult
  /\ extractedTiles = <<>>
  /\ workers = 0
  /\ outcome = "none"
  /\ stream = <<>>
  /\ failed = 0
  /\ branch = "none"
  /\ decodable = TRUE
  /\ created = 0
  /\ recognized = <<>>
  /\ UiIdle

Init ==
  /\ variant \in Variants
  /\ RunIdle
  /\ arg = <<>>
  /\ ret = <<>>
  /\ phase = "run"

\* one upload at a time, no other handler in between
Next ==
  \/ handleImageUpload /\ UNCHANGED <<events, handler>>
  \/ loadImageSettled /\ UNCHANGED <<events, handler>>
  \/ loadImageElementSettled /\ UNCHANGED <<events, handler>>
  \/ createWorkerSettled /\ UNCHANGED <<events, handler>>
  \/ setParametersSettled /\ UNCHANGED <<events, handler>>
  \/ recognizeSettled /\ UNCHANGED <<events, handler>>
  \/ terminateSettled /\ UNCHANGED <<events, handler>>

Spec == Init /\ [][Next]_vars

(***************************************************************************)
(* Pure functions checked on their own: the input is drawn in the initial  *)
(* state and one action applies the function.                              *)
(***************************************************************************)
\* longest token enumerated exhaustively over TokenAlphabet
MaxTokenLen == 3
\* longest token of the length-bound family
MaxLongToken == 21
\* most tokens joined into one enumerated raw text
MaxTextTokens == 2

TokenAlphabet == {"E", "A", "1", ":", " "}

RECURSIVE tokensUpTo(_)
tokensUpTo(n) ==
  IF n = 0 THEN {<<>>}
  ELSE LET shorter == tokensUpTo(n - 1)
       IN shorter \cup {Append(t, c) : t \in shorter, c \in TokenAlphabet}

longToken(n) == [i \in 1..n |-> IF i % 2 = 1 THEN "A" ELSE "B"]

Tokens ==
  tokensUpTo(MaxTokenLen)
  \cup {longToken(n) : n \in 1..MaxLongToken}
  \cup {W_SHUFFLE, W_1129, W_42, W_EEEE, W_CREDIT, W_VILLAGER, W_CAT,
        <<"I","I","I">>, <<"O","F">>, <<"N","O">>, <<"7","7","7","7">>,
        <<"1",":","2","9">>, <<"c","a","t">>}

InitValid ==
  /\ variant \in Variants
  /\ RunIdle
  /\ arg \in Tokens
  /\ ret = FALSE
  /\ phase = "input"

applyIsValidTileWord ==
  /\ phase = "input"
  /\ ret' = isValidTileWord(variant, arg)
  /\ phase' = "isValidTileWord"
  /\ UNCHANGED <<variant, runVars, arg>>

SpecValid == InitValid /\ [][applyIsValidTileWord]_vars

\* raw texts: up to MaxTextTokens fragments joined by one separator
TextFragments == {W_CAT, W_SHUFFLE, W_1129, W_EEEE, <<"d","o","g">>}
TextSeparators == {<<" ">>, <<"\n">>, <<" ", " ">>}

RECURSIVE joinedTexts(_, _)
joinedTexts(n, sep) ==
  IF n = 1 THEN TextFragments
  ELSE LET shorter == joinedTexts(n - 1, sep)
       IN shorter \cup {t \o sep \o f : t \in shorter, f \in TextFragments}

RawTexts ==
  {<<>>, TextGrid, TextRow, TextDup, TextNoise, TextChrome}
  \cup UNION {joinedTexts(MaxTextTokens, sep) : sep \in TextSeparators}

InitText ==
  /\ variant \in Variants
  /\ RunIdle
  /\ arg \in RawTexts
  /\ ret = <<>>
  /\ phase = "input"

applyValidWordsOfText ==
  /\ phase = "input"
  /\ ret' = validWordsOfText(variant, arg)
  /\ phase' = "validWordsOfText"
  /\ UNCHANGED <<variant, runVars, arg>>

SpecText == InitText /\ [][applyValidWordsOfText]_vars

(***************************************************************************)
(* Properties.                                                             *)
(***************************************************************************)
\* the de-duplicated candidate list the reconciliation starts from
Union == IF variant = "p0" THEN allFoundWords ELSE extractedTiles

\* the candidates after every pass and the raw-text fallback, merged
AllCandidates ==
  IF variant = "p0" THEN allFoundWords
  ELSE pushIfAbsent(extractedTiles, extractTilesFallback(variant, result.text))

isPlaceholder(t) == \E n \in 1..16 : t = placeholder(n)

\* the run got as far as choosing between truncation, padding and the error
Reconciled == pc = "idle" /\ branch # "none"

\* the elements of s without repetitions, each at its first occurrence
firstOccurrences(s) ==
  LET keep == {i \in DOMAIN s : \A j \in 1..(i - 1) : s[j] # s[i]}
  IN [k \in 1..Cardinality(keep) |->
        s[CHOOSE i \in keep : Cardinality({j \in keep : j < i}) = k - 1]]

\* C1: a run that completes without throwing leaves exactly 16 tiles, and
\* the stored value is the serialization of that 16-entry list
C1_SuccessLeavesSixteenPersisted ==
  outcome = "ok" => (Len(tiles) = 16 /\ storage = <<JSONstringify(tiles)>>)

\* a run that succeeded through the raw-text fallback
C1_Witness ==
  outcome = "ok" /\ branch = "fallback" /\ Len(tiles) = 16 /\ storage # <<>>

\* C2: when the union has 16 or more entries the tile list is its first 16
\* entries in union order, none of them a placeholder
C2_LargeUnionTruncated ==
  (outcome = "ok" /\ Len(Union) >= 16) =>
    /\ tiles = SubSeq(Union, 1, 16)
    /\ \A i \in DOMAIN tiles : ~isPlaceholder(tiles[i])

\* a run whose union had more than 16 entries
C2_Witness ==
  outcome = "ok" /\ Len(Union) > 16 /\ tiles = SubSeq(Union, 1, 16)

\* C3: with n in 1..15 candidates after every pass and the fallback the run
\* succeeds with the n candidates followed by 16 - n placeholders, each
\* different from every candidate
C3_PartialResultPadded ==
  (Reconciled /\ Len(AllCandidates) \in 1..15) =>
    /\ outcome = "ok"
    /\ tiles = AllCandidates
                 \o [k \in 1..(16 - Len(AllCandidates)) |->
                       placeholder(Len(AllCandidates) + k)]
    /\ \A i \in (Len(AllCandidates) + 1)..16 : tiles[i] \notin Range(AllCandidates)

\* C4: with no candidate after every pass and the fallback the run ends in
\* the error, the tile list is empty and nothing is stored
C4_NoCandidatesIsError ==
  (Reconciled /\ Len(AllCandidates) = 0) =>
    (outcome = "error" /\ tiles = <<>> /\ storage = <<>>)

\* a run that recognized text and found no candidate in it
C4_Witness ==
  /\ variant = "app"
  /\ Reconciled
  /\ result # NoResult
  /\ Len(AllCandidates) = 0
  /\ outcome = "error"

\* C5: the union holds every distinct text of the candidate stream exactly
\* once, in the order of first occurrence
C5_UnionKeepsFirstOccurrences == Union = firstOccurrences(stream)

\* the stream CAT, DOG, CAT, FISH reduced to CAT, DOG, FISH
C5_Witness ==
  /\ stream = <<W_CAT, W_DOG, W_CAT, W_FISH>>
  /\ Union = <<W_CAT, W_DOG, W_FISH>>

\* C6: a rejected recognition call of one pass, with candidates found by
\* another pass, does not stop the run: all passes run and 16 tiles result
C6_FailedPassIsIsolated ==
  (pc = "idle" /\ failed > 0 /\ allFoundWords # <<>>) =>
    (pass = numPasses(variant) /\ outcome = "ok" /\ Len(tiles) = 16)

\* the rules the validator is said to apply in every iteration
minLength(v) == CASE v = "app" -> 2 [] v = "p0" -> 3 [] v = "p1" -> 1
maxLength(v) == CASE v = "app" -> 20 [] v = "p0" -> 15 [] v = "p1" -> 20
uiWords(v) ==
  CASE v = "app" -> uiWords_app [] v = "p0" -> uiWords_p0 [] v = "p1" -> uiWords_p1

passesAllRules(v, text) ==
  /\ Len(text) >= minLength(v)
  /\ Len(text) <= maxLength(v)
  /\ text \notin uiWords(v)
  /\ ~isAllDigits(text)
  /\ ~isClock(text)
  /\ ~isRepeat(text)
  /\ hasLetter(text)

\* C7: every iteration of isValidTileWord accepts a token only if it passes
\* all six rules; SHUFFLE, 11:29, 42, EEEE are rejected, CREDIT and VILLAGER
\* accepted
C7_ValidatorAppliesAllRules ==
  phase = "isValidTileWord" =>
    /\ ret => passesAllRules(variant, arg)
    /\ arg \in {W_SHUFFLE, W_1129, W_42, W_EEEE} => ~ret
    /\ arg \in {W_CREDIT, W_VILLAGER} => ret

\* C8: every iteration of the text parse turns the three lines
\* SHUFFLE / CAT DOG BIRD FISH / 11:29 into CAT, DOG, BIRD, FISH
C8_ChromeTextYieldsFourTiles ==
  (phase = "validWordsOfText" /\ arg = TextChrome) =>
    ret = <<W_CAT, W_DOG, W_BIRD, W_FISH>>

(***************************************************************************)
(* Thresholding.  lum = 0.299 * r + 0.587 * g + 0.114 * b is computed in   *)
(* doubles: three products and two sums, each rounded.                     *)
(***************************************************************************)
\* the doubles nearest to the three literals
Limbs_0_299 == <<1572, 38273, 35651, 76, 0>>   \* 0x1.322d0e5604189p-2
Limbs_0_587 == <<33552, 51904, 17825, 150, 0>>   \* 0x1.2c8b439581062p-1
Limbs_0_114 == <<30409, 40894, 12058, 29, 0>>    \* 0x1.d2f1a9fbe76c9p-4


\* const lum = 0.299 * r + 0.587 * g + 0.114 * b
luminance(px) ==
  doublePlus(doublePlus(doubleTimes(Limbs_0_299, px.r),
                        doubleTimes(Limbs_0_587, px.g)),
             doubleTimes(Limbs_0_114, px.b))

\* lum > threshold
isLightPixel_ge(px, threshold) ==
  ~doubleGreater(doubleOfInt(threshold), luminance(px))

isLightPixel(px, threshold) ==
  doubleGreater(luminance(px), doubleOfInt(threshold))

white(px) == [px EXCEPT !.r = 255, !.g = 255, !.b = 255]
black(px) == [px EXCEPT !.r = 0, !.g = 0, !.b = 0]

\* the loop body of processWithThreshold (part_001)
processWithThreshold(px, threshold, invert) ==
  LET isLight == IF invert THEN ~isLightPixel(px, threshold)
                 ELSE isLightPixel(px, threshold)
  IN IF isLight THEN white(px) ELSE black(px)

\* the threshold loop body of extractTextFromImage (part_000): cutoff 120
thresholdPixel_p0(px) ==
  IF isLightPixel(px, 120) THEN white(px) ELSE black(px)

\* the largest step of 5 above the cutoff 120 that is tried
MaxCutoffStep == 2

ChannelSamples == {0, 10, 120, 200, 255}

\* pixels whose luminance is at or next to an integer cutoff
BoundaryPixels ==
  { <<120, 120, 120>>, <<0, 192, 64>>, <<2, 177, 136>>, <<2, 197, 33>>,
    <<193, 69, 235>>, <<244, 84, 24>>, <<1, 207, 28>>, <<0, 171, 216>>,
    <<0, 191, 113>>, <<3, 191, 149>>, <<0, 217, 23>>, <<1, 206, 77>>,
    <<125, 125, 125>>, <<130, 130, 130>> }

Pixels ==
  {[r |-> c[1], g |-> c[2], b |-> c[3], a |-> 255] :
     c \in (ChannelSamples \X ChannelSamples \X ChannelSamples)
           \cup BoundaryPixels}

ThresholdInputs ==
  {[px |-> p, threshold |-> 120 + 5 * k, invert |-> i] :
     p \in Pixels, k \in 0..MaxCutoffStep, i \in BOOLEAN}

\* part_000 thresholds at 120 without the invert option
InitThreshold ==
  /\ variant \in {"p0", "p1"}
  /\ RunIdle
  /\ arg \in ThresholdInputs
  /\ variant = "p0" => (arg.threshold = 120 /\ ~arg.invert)
  /\ ret = <<>>
  /\ phase = "input"

applyThreshold ==
  /\ phase = "input"
  /\ ret' = IF variant = "p0" THEN thresholdPixel_p0(arg.px)
            ELSE processWithThreshold(arg.px, arg.threshold, arg.invert)
  /\ phase' = "threshold"
  /\ UNCHANGED <<variant, runVars, arg>>

SpecThreshold == InitThreshold /\ [][applyThreshold]_vars

\* 1000 times the luminance in exact arithmetic
luminance1000(px) == 299 * px.r + 587 * px.g + 114 * px.b

\* C10 as stated: white exactly when the luminance is strictly above the
\* cutoff (so black at equality), the opposite colour with invert; at cutoff
\* 120 the pixel (200,200,200) becomes white and (10,10,10) black
C10_ThresholdExactAtCutoff ==
  phase = "threshold" =>
    LET above == luminance1000(arg.px) > 1000 * arg.threshold
    IN ret = IF above # arg.invert THEN white(arg.px) ELSE black(arg.px)

\* C10 amended: white when the luminance is strictly above an integer cutoff
\* and black when it is strictly below; at cutoff 120 black at equality; the
\* opposite colour with invert
C10_ThresholdAwayFromCutoff ==
  phase = "threshold" =>
    LET lum == luminance1000(arg.px)
        cut == 1000 * arg.threshold
        light == IF arg.invert THEN black(arg.px) ELSE white(arg.px)
        dark == IF arg.invert THEN white(arg.px) ELSE black(arg.px)
    IN /\ ret \in {white(arg.px), black(arg.px)}
       /\ lum > cut => ret = light
       /\ lum < cut => ret = dark
       /\ (lum = cut /\ arg.threshold = 120) => ret = dark

\* a pixel of luminance exactly 120 thresholded at 120
C10_Witness ==
  /\ phase = "threshold"
  /\ arg.threshold = 120
  /\ luminance1000(arg.px) = 120000
  /\ ret = IF arg.invert THEN white(arg.px) ELSE black(arg.px)

(***************************************************************************)
(* extractTilesFromOCR (app.js) on evenly spaced 4x4 arrangements.         *)
(***************************************************************************)
\* the spacings tried are the cubes 1, 8, 27, ... up to this root
MaxGapRoot == 3
\* the reporting orders tried are k -> (k * m) % 17 for m up to this factor
MaxOrderFactor == 6
\* the box-height patterns tried, from uniform (0) upwards
MaxHeightPattern == 2

\* the height of the k-th word's box under a pattern: even, so that the
\* centre stays where it is put
boxHeight(pattern, k) == 2 + 2 * ((k * pattern) % 7)

\* the engine reports the word of grid cell (k * m) % 17 in k-th place
gridResult(m, confidence, dx, dy, pattern) ==
  [text |-> TextGrid,
   words |-> [k \in 1..16 |->
                gridWord(expected, (k * m) % 17, confidence, dx, dy,
                         boxHeight(pattern, (k * m) % 17))]]

GridResults ==
  {gridResult(m, c, gx * gx * gx, gy * gy * gy, p) :
     m \in 1..MaxOrderFactor, c \in {51, 90},
     gx \in 1..MaxGapRoot, gy \in 1..MaxGapRoot, p \in 0..MaxHeightPattern}

InitGrid ==
  /\ variant = "app"
  /\ RunIdle
  /\ arg \in GridResults
  /\ ret = <<>>
  /\ phase = "input"

applyExtractTilesFromOCR ==
  /\ phase = "input"
  /\ ret' = extractTilesFromOCR_app(arg)
  /\ phase' = "extractTilesFromOCR"
  /\ UNCHANGED <<variant, runVars, arg>>

SpecGrid == InitGrid /\ [][applyExtractTilesFromOCR]_vars

\* C9: 16 valid distinct words above the confidence gate, centred on an
\* evenly spaced 4x4 arrangement, come out in row-major order whatever the
\* reporting order and the box heights
C9_GridReadInRowMajorOrder ==
  phase = "extractTilesFromOCR" => ret = expected

\* a grid reported out of order with boxes of different heights
C9_Witness ==
  /\ phase = "extractTilesFromOCR"
  /\ arg.words[1].text # expected[1]
  /\ \E i, j \in DOMAIN arg.words :
       arg.words[i].bbox.y1 - arg.words[i].bbox.y0
         # arg.words[j].bbox.y1 - arg.words[j].bbox.y0
  /\ ret = expected

(***************************************************************************)
(* The raw-text fallback and the positional union (app.js, part_001).      *)
(***************************************************************************)
\* the union with the fallback entries it lacks appended
mergedWithFallback ==
  pushIfAbsent(extractedTiles, extractTilesFallback(variant, result.text))

\* C11: with 1 to 15 positional entries the fallback is merged into the union:
\* the tile list starts with the union followed by the new fallback entries,
\* cut to 16 only after the merge
C11_FallbackMergedIntoUnion ==
  (Reconciled /\ variant # "p0" /\ Len(extractedTiles) \in 1..15) =>
    LET n == Min({16, Len(mergedWithFallback)})
    IN /\ outcome = "ok"
       /\ SubSeq(tiles, 1, n) = SubSeq(mergedWithFallback, 1, n)

(***************************************************************************)
(* clusterIntoRows (app.js) on columns of words with uneven spacing.       *)
(***************************************************************************)
\* the largest number of words given to clusterIntoRows
MaxClusterWords == 17
\* the vertical positions grow with the place raised to a power up to this
MaxSpread == 2

RECURSIVE power(_, _)
power(b, e) == IF e = 0 THEN 1 ELSE b * power(b, e - 1)

\* n words; the k-th reported stands at place (k * m) % 17 of the column, the
\* places dy * place^e pixels below the first
clusterInput(n, m, dy, e) ==
  [k \in 1..n |->
     wordAt(expected[1 + (k % 16)], 90, 100 + 10 * k,
            100 + dy * power((k * m) % 17, e), 80, 40)]

ClusterInputs ==
  {clusterInput(n, m, gy * gy * gy, e) :
     n \in 0..MaxClusterWords, m \in 1..MaxOrderFactor,
     gy \in 1..MaxGapRoot, e \in 1..MaxSpread}

InitCluster ==
  /\ variant = "app"
  /\ RunIdle
  /\ arg \in ClusterInputs
  /\ ret = <<>>
  /\ phase = "input"

applyClusterIntoRows ==
  /\ phase = "input"
  /\ ret' = clusterIntoRows(arg, 4)
  /\ phase' = "clusterIntoRows"
  /\ UNCHANGED <<variant, runVars, arg>>

SpecCluster == InitCluster /\ [][applyClusterIntoRows]_vars

\* the number of words whose centre lies in vertical band r (0..3)
bandPopulation(words, r) ==
  IF words = <<>> THEN 0
  ELSE
    LET ys == {centerY2(words[i]) : i \in DOMAIN words}
    IN Cardinality({i \in DOMAIN words :
         Min({3, bandIndex(centerY2(words[i]) - Min(ys), Max(ys) - Min(ys), 4)}) = r})

\* the words sorted by centerY, cut into consecutive groups of 4; whatever is
\* left after 16 goes to the last row
strictSplit(words) ==
  LET sorted == sortByKey(words, centerY2)
  IN [r \in 1..4 |->
        SubSeq(sorted, Min({Len(sorted), 4 * (r - 1)}) + 1,
               IF r = 4 THEN Len(sorted) ELSE Min({Len(sorted), 4 * r}))]

\* C12: when some band holds fewer than 2 or more than 6 words the rows are
\* the strict positional split, whatever the number of words
C12_UnevenBandsGiveStrictSplit ==
  (/\ phase = "clusterIntoRows"
   /\ \E r \in 0..3 : bandPopulation(arg, r) < 2 \/ bandPopulation(arg, r) > 6)
    => ret = strictSplit(arg)

(***************************************************************************)
(* extractWordsFromText (part_000) on raw texts.                           *)
(***************************************************************************)
WordTexts ==
  RawTexts \cup tokensUpTo(MaxTokenLen)
  \cup {TextBlank, <<"c","a","t">>, <<"a">>, <<"a","-","b","c","9","D","e","f","G">>,
        <<"x","Y","z","\n","Q">>}

InitWords ==
  /\ variant = "p0"
  /\ RunIdle
  /\ arg \in WordTexts
  /\ ret = <<>>
  /\ phase = "input"

applyExtractWordsFromText ==
  /\ phase = "input"
  /\ ret' = extractWordsFromText(arg)
  /\ phase' = "extractWordsFromText"
  /\ UNCHANGED <<variant, runVars, arg>>

SpecWords == InitWords /\ [][applyExtractWordsFromText]_vars

\* the stretches a..b of s made of capital letters only
letterStretches(s) ==
  {c \in (1..Len(s)) \X (1..Len(s)) :
     c[1] <= c[2] /\ \A k \in c[1]..c[2] : s[k] \in UpperChars}

\* a stretch with no letter right before it and none right after it
isMaximalStretch(s, c) ==
  /\ (c[1] = 1 \/ s[c[1] - 1] \notin UpperChars)
  /\ (c[2] = Len(s) \/ s[c[2] + 1] \notin UpperChars)

\* C14: the tokens are, left to right, exactly the maximal stretches of two or
\* more letters A-Z of the upper-cased text, and none when there is no such
\* stretch
C14_TokensAreMaximalLetterRuns ==
  phase = "extractWordsFromText" =>
    LET upper == toUpperCase(arg)
        wanted == {c \in letterStretches(upper) :
                     isMaximalStretch(upper, c) /\ c[2] - c[1] + 1 >= 2}
    IN /\ Len(ret) = Cardinality(wanted)
       /\ \A k \in DOMAIN ret :
            /\ Len(ret[k]) >= 2
            /\ \A i \in DOMAIN ret[k] : ret[k][i] \in UpperChars
            /\ \E c \in wanted :
                 /\ Cardinality({d \in wanted : d[1] < c[1]}) = k - 1
                 /\ ret[k] = SubSeq(upper, c[1], c[2])
       /\ (wanted = {} => ret = <<>>)

\* a text with lower-case letters, a single letter and two runs
C14_Witness ==
  /\ phase = "extractWordsFromText"
  /\ arg = <<"a","-","b","c","9","D","e","f","G">>
  /\ ret = << <<"B","C">>, <<"D","E","F","G">> >>

(***************************************************************************)
(* extractTilesFromOCR (app.js) on a 4x4 grid with additional words in its *)
(* rows.                                                                   *)
(***************************************************************************)
\* the most additional words placed into the grid's rows
MaxExtraWords == 5

extraTexts == <<W_EXTRA, W_CAT, W_DOG, W_BIRD, W_FISH>>

\* the j-th additional word: in row j % 4, between, on or right of the columns
extraWord(j) ==
  wordAt(extraTexts[1 + ((j - 1) % 5)], 90, 100 * ((3 * j) % 10),
         100 + 120 * (j % 4), 80, 40)

\* the grid reported in the order k -> (k * m) % 17, the additional words
\* reported before or after it
crowdedResult(m, extras, first) ==
  LET grid == [k \in 1..16 |-> gridWord(expected, (k * m) % 17, 90, 200, 120, 40)]
      more == SelectSeq([j \in 1..MaxExtraWords |-> extraWord(j)],
                        LAMBDA w : \E j \in extras : w = extraWord(j))
  IN [text |-> TextGrid, words |-> IF first THEN more \o grid ELSE grid \o more]

CrowdedResults ==
  {crowdedResult(m, extras, first) :
     m \in 1..MaxOrderFactor, extras \in SUBSET (1..MaxExtraWords),
     first \in BOOLEAN}

InitCrowded ==
  /\ variant = "app"
  /\ RunIdle
  /\ arg \in CrowdedResults
  /\ ret = <<>>
  /\ phase = "input"

applyExtractTilesFromCrowded ==
  /\ phase = "input"
  /\ ret' = extractTilesFromOCR_app(arg)
  /\ phase' = "extractTilesFromCrowded"
  /\ UNCHANGED <<variant, runVars, arg>>

SpecCrowded == InitCrowded /\ [][applyExtractTilesFromCrowded]_vars

\* the rows the words of a result are clustered into
rowsOf(res) == clusterIntoRows(wordsToUse_app(collectWords_app(res)), 4)

\* how many words of the row stand left of its p-th word (on equal centerX,
\* the words before it in the row)
wordsLeftOf(row, p) ==
  Cardinality({q \in DOMAIN row :
     \/ centerX2(row[q]) < centerX2(row[p])
     \/ centerX2(row[q]) = centerX2(row[p]) /\ q < p})

\* the places <<row, word>> of the words that are among the 4 leftmost of
\* their row
leftmostFour(rows) ==
  UNION {{<<r, p>> : p \in {q \in DOMAIN rows[r] : wordsLeftOf(rows[r], q) < 4}} :
           r \in DOMAIN rows}

\* reading position of a place: rows top to bottom, left to right in a row
readingKey(rows, c) == 100 * c[1] + wordsLeftOf(rows[c[1]], c[2])

\* the first reading position at which a text is found among the kept words
firstKey(rows, kept, t) ==
  Min({readingKey(rows, c) : c \in {d \in kept : rows[d[1]][d[2]].text = t}})

\* C15: the output holds exactly the texts of the 4 leftmost words of each
\* row, in reading order (rows top to bottom, centerX increasing), at most 16
\* entries, and no text found only beyond the fourth place of a row
C15_FourLeftmostPerRow ==
  phase = "extractTilesFromCrowded" =>
    LET rows == rowsOf(arg)
        kept == leftmostFour(rows)
        keys == [i \in DOMAIN ret |-> firstKey(rows, kept, ret[i])]
    IN /\ Len(ret) <= 16
       /\ \A c \in kept : rows[c[1]][c[2]].text \in Range(ret)
       /\ \A i \in DOMAIN ret : \E c \in kept : rows[c[1]][c[2]].text = ret[i]
       /\ \A i \in 1..(Len(ret) - 1) : keys[i] < keys[i + 1]

\* a row of six words reported out of order: its two rightmost are left out
C15_Witness ==
  /\ phase = "extractTilesFromCrowded"
  /\ \E r \in 1..4 : Len(rowsOf(arg)[r]) = 6
  /\ arg.words[1].text # expected[1]
  /\ Len(arg.words) > 16
  /\ Len(ret) = 16
  /\ W_EXTRA \in Range(ret)
  /\ expected[8] \notin Range(ret)

(***************************************************************************)
(* Decoding failures and the images the passes recognize.                  *)
(***************************************************************************)
\* C16: for a file that is not a decodable image no worker is created and
\* recognize is never called, and the run ends in the error with no tiles
C16_DecodeFailureBeforeRecognition ==
  (~decodable /\ outcome # "none") =>
    /\ created = 0
    /\ recognized = <<>>
    /\ (pc = "idle" => (outcome = "error" /\ tiles = <<>>))

\* C17: when the passes on the binarized image (full grid and rows) leave
\* fewer than 16 candidates, a pass on the original image has been run before
\* padding or the error is decided
C17_RetryOnOriginalImage ==
  (Reconciled /\ variant = "p0" /\ Len(allFoundWords) < 16) =>
    "imageData" \in Range(recognized)

\* C18: in a padded result with n real tiles the entries n+1 .. 16, and only
\* they, are placeholders, the one at position p reads TILE p, and the 16
\* entries are pairwise different
C18_PlaceholdersNumberedAndDistinct ==
  (outcome = "ok" /\ branch = "pad") =>
    LET n == Len(Union)
    IN /\ Len(tiles) = 16
       /\ n \in 1..15
       /\ SubSeq(tiles, 1, n) = Union
       /\ \A p \in 1..n : ~isPlaceholder(tiles[p])
       /\ \A p \in (n + 1)..16 : tiles[p] = <<"T", "I", "L", "E", " ">> \o decimal(p)
       /\ \A p, q \in 1..16 : p # q => tiles[p] # tiles[q]

\* three real tiles followed by TILE 4 .. TILE 16
C18_Witness ==
  /\ outcome = "ok"
  /\ branch = "pad"
  /\ Len(Union) = 3
  /\ tiles[4] = <<"T", "I", "L", "E", " ", "4">>
  /\ tiles[16] = <<"T", "I", "L", "E", " ", "1", "6">>

(***************************************************************************)
(* The handlers of the page: page load, the buttons, drag and drop, touch  *)
(* and a second upload, dispatched between the awaits of a run.            *)
(***************************************************************************)
\* the most user events (uploads, clicks, drags, touches, reloads) dispatched
MaxEvents == 3
\* Math.random() takes the values k / (MaxShuffleSeed + 1) for k up to this
MaxShuffleSeed == 2

\* the tile elements the pointer or the finger is tried on
TileIndices == {0, 1, 15}

\* the variables of the run that handleImageUpload started
runLocal == <<pc, pass, allFoundWords, result, extractedTiles, workers, outcome,
              stream, failed, branch, decodable, created, recognized>>

\* list[i] for an index i read from dataset.index, or list[null]
arrayGet(list, nullProperty, i) ==
  IF i = NullIndex THEN nullProperty
  ELSE IF i + 1 \in DOMAIN list THEN list[i + 1]
  ELSE Undefined

\* list[i] = v for a number i: an assignment past the end lengthens the array
arraySet(list, i, v) ==
  [k \in 1..Max({Len(list), i + 1}) |->
     IF k = i + 1 THEN v
     ELSE IF k \in DOMAIN list THEN list[k]
     ELSE Undefined]

\* swapTiles with the bounds tested against the tile list and null refused
swapTiles_lengthChecked(indexA, indexB) ==
  IF \/ indexA = indexB
     \/ indexA = NullIndex
     \/ indexA >= Len(tiles)
     \/ indexB >= Len(tiles)
    THEN [swapped |-> FALSE, tiles |-> tiles, tilesNull |-> tilesNull]
    ELSE [swapped |-> TRUE,
          tiles |-> arraySet(arraySet(tiles, indexA, tiles[indexB + 1]),
                             indexB, tiles[indexA + 1]),
          tilesNull |-> tilesNull]

\* swapTiles(indexA, indexB) up to saveState: indexA is draggedIndex, a number
\* or null; null === indexB, null < 0 and null >= 16 are all false, and
\* tiles[null] is the property "null" of the array
swapTiles(indexA, indexB) ==
  IF \/ indexA = indexB
     \/ (indexA # NullIndex /\ (indexA < 0 \/ indexA >= 16))
     \/ indexB < 0
     \/ indexB >= 16
    THEN [swapped |-> FALSE, tiles |-> tiles, tilesNull |-> tilesNull]
    ELSE LET temp == arrayGet(tiles, tilesNull, indexA)
             moved == arrayGet(tiles, tilesNull, indexB)
             afterA == IF indexA = NullIndex THEN tiles
                       ELSE arraySet(tiles, indexA, moved)
         IN [swapped |-> TRUE,
             tiles |-> arraySet(afterA, indexB, temp),
             tilesNull |-> IF indexA = NullIndex THEN moved ELSE tilesNull]

\* the assignments of swapTiles followed by saveState() and renderTiles()
applySwap(swap) ==
  /\ tiles' = swap.tiles
  /\ tilesNull' = swap.tilesNull
  /\ IF swap.swapped
       THEN saveState /\ rendered' = renderCount(swap.tiles)
       ELSE UNCHANGED <<storage, rendered>>

\* createTileElement threw inside renderTiles: the handler is left at once
renderThrows(swap) == swap.swapped /\ renderCount(swap.tiles) < Len(swap.tiles)

\* the Fisher-Yates loop with Math.random() = k / (MaxShuffleSeed + 1)
RECURSIVE fisherYates(_, _, _)
fisherYates(list, i, k) ==
  IF i <= 0 THEN list
  ELSE LET j == (k * (i + 1)) \div (MaxShuffleSeed + 1)
           swapped == [list EXCEPT ![i + 1] = list[j + 1], ![j + 1] = list[i + 1]]
       IN fisherYates(swapped, i - 1, k)

\* click on #shuffle-btn
shuffleTiles ==
  /\ \E k \in 0..MaxShuffleSeed : tiles' = fisherYates(tiles, Len(tiles) - 1, k)
  /\ saveState
  /\ renderTiles
  /\ UNCHANGED <<variant, runLocal, tilesNull, shown, draggedIndex, second,
                 touchVars, pureVars>>

\* click on #new-image-btn
resetToUpload ==
  /\ clearState
  /\ shown' = FALSE
  /\ UNCHANGED <<variant, runLocal, rendered, draggedTile, touchCurrentTile,
                 draggedIndex, second, touchVars, pureVars>>

\* dragstart on a tile element
handleDragStart ==
  /\ \E i \in TileIndices :
       /\ i < rendered
       /\ draggedTile' = i
       /\ draggedIndex' = i
  /\ UNCHANGED <<variant, runLocal, tiles, storage, tilesNull, rendered, shown,
                 touchCurrentTile, second, touchVars, pureVars>>

\* dragend on the element the drag started on
handleDragEnd ==
  /\ draggedTile # NoTile
  /\ draggedTile' = NoTile
  /\ draggedIndex' = NullIndex
  /\ UNCHANGED <<variant, runLocal, tiles, storage, tilesNull, rendered, shown,
                 touchCurrentTile, second, touchVars, pureVars>>

\* drop on a tile element, of a dragged tile or of anything else dragged over
\* the page (a file, a link, selected text): draggedIndex is then still null
handleDrop ==
  /\ \E target \in TileIndices :
       /\ target < rendered
       /\ LET swap == IF target = draggedTile
                        THEN [swapped |-> FALSE, tiles |-> tiles,
                              tilesNull |-> tilesNull]
                        ELSE swapTiles(draggedIndex, target)
          IN /\ applySwap(swap)
             /\ draggedTile' = IF swap.swapped THEN detach(draggedTile)
                               ELSE draggedTile
             /\ touchCurrentTile' = IF swap.swapped THEN detach(touchCurrentTile)
                                    ELSE touchCurrentTile
  /\ UNCHANGED <<variant, runLocal, shown, draggedIndex, second,
                 touchVars, pureVars>>

\* tile.cloneNode(true): a clone that is neither attached nor held
newClone ==
  Min((1..(Cardinality(attached) + 2)) \ (attached \cup {touchClone}))

\* touchstart on a tile element: one more finger is down; the clone is appended
\* to document.body and touchClone is overwritten with it
handleTouchStart ==
  /\ \E i \in TileIndices :
       /\ i < rendered
       /\ touchCurrentTile' = i
       /\ draggedIndex' = i
  /\ touchClone' = newClone
  /\ attached' = attached \cup {newClone}
  /\ touches' = touches + 1
  /\ UNCHANGED <<variant, runLocal, tiles, storage, tilesNull, rendered, shown,
                 draggedTile, second, pureVars>>

\* touchmove of a finger that went down on a tile: the clone is positioned and
\* the drag-over class is moved, or the handler returns at once
handleTouchMove ==
  /\ touches > 0
  /\ UNCHANGED <<variant, runLocal, sharedVars, draggedIndex, second, touchVars,
                 pureVars>>

\* touchend of a finger that went down on a tile: the handler returns at once
\* without a clone or a current tile; else the element under the finger is a
\* tile or none, and the cleanup is skipped when renderTiles throws inside
\* swapTiles
handleTouchEnd ==
  /\ touches > 0
  /\ touches' = touches - 1
  /\ IF touchClone = NoClone \/ touchCurrentTile = NoTile
       THEN UNCHANGED <<sharedVars, draggedIndex, touchClone, attached>>
       ELSE \E target \in TileIndices \cup {NoTile} :
              /\ target < rendered
              /\ LET swap == IF target = NoTile \/ target = touchCurrentTile
                               THEN [swapped |-> FALSE, tiles |-> tiles,
                                     tilesNull |-> tilesNull]
                               ELSE swapTiles(draggedIndex, target)
                 IN /\ applySwap(swap)
                    /\ UNCHANGED shown
                    /\ draggedTile' = IF swap.swapped THEN detach(draggedTile)
                                      ELSE draggedTile
                    /\ IF renderThrows(swap)
                         THEN /\ touchCurrentTile' = Detached
                              /\ UNCHANGED <<draggedIndex, touchClone, attached>>
                         ELSE /\ touchCurrentTile' = NoTile
                              /\ draggedIndex' = NullIndex
                              /\ touchClone' = NoClone
                              /\ attached' = attached \ {touchClone}
  /\ UNCHANGED <<variant, runLocal, second, pureVars>>

\* the script starts on a freshly loaded page and DOMContentLoaded runs
\* loadState: whatever was suspended is gone with the old page
pageLoad ==
  /\ pc' = "idle"
  /\ pass' = 0
  /\ allFoundWords' = <<>>
  /\ result' = NoResult
  /\ extractedTiles' = <<>>
  /\ workers' = 0
  /\ outcome' = "none"
  /\ stream' = <<>>
  /\ failed' = 0
  /\ branch' = "none"
  /\ decodable' = TRUE
  /\ created' = 0
  /\ recognized' = <<>>
  /\ second' = SecondIdle
  /\ draggedTile' = NoTile
  /\ draggedIndex' = NullIndex
  /\ touchCurrentTile' = NoTile
  /\ touchClone' = NoClone
  /\ attached' = {}
  /\ touches' = 0
  /\ tilesNull' = Undefined
  /\ IF storage = <<>>
       THEN /\ tiles' = <<>>
            /\ rendered' = 0
            /\ shown' = FALSE
            /\ UNCHANGED storage
       ELSE LET saved == JSONparse(storage[1])
            IN /\ tiles' = saved
               /\ IF Len(saved) = 16
                    THEN /\ shown' = TRUE
                         /\ rendered' = renderCount(saved)
                         /\ storage' = IF renderCount(saved) < 16 THEN <<>>
                                       ELSE storage
                    ELSE /\ shown' = FALSE
                         /\ rendered' = 0
                         /\ UNCHANGED storage
  /\ UNCHANGED <<variant, pureVars>>

\* change event of the file input while an earlier handleImageUpload is
\* suspended at an await
secondUpload ==
  /\ pc # "idle"
  /\ second.pc = "idle"
  /\ clearState
  /\ shown' = FALSE
  /\ second' = [SecondIdle EXCEPT !.pc = "suspended"]
  /\ UNCHANGED <<variant, runLocal, rendered, draggedTile, touchCurrentTile,
                 draggedIndex, touchVars, pureVars>>

\* the second upload's handler reaches its end.  Its resumptions before the
\* last one assign only locals of that call, which no other handler reads, so
\* they are taken together with the last: either an awaited promise rejected
\* and the catch blocks assign nothing, or every recognition resolved with
\* res and the tiles are reconciled and stored
secondSettled ==
  /\ second.pc = "suspended"
  /\ second' = SecondIdle
  /\ \/ UNCHANGED sharedVars
     \/ \E res \in RecognizeResults :
          \E merged \in {IF variant = "p0"
                           THEN pushIfAbsent(<<>>, candidatesOf("p0", res))
                           ELSE <<>>} :
            \E extracted \in {IF variant = "p0" THEN <<>>
                              ELSE extractTilesFromOCR(variant, res)} :
              \E choice \in {reconcile(variant, merged, extracted, res)} :
                IF choice.branch = "throw"
                  THEN UNCHANGED sharedVars
                  ELSE storeTiles(choice.tiles)
  /\ UNCHANGED <<variant, runLocal, draggedIndex, touchVars, pureVars>>

InitApp ==
  /\ variant \in Variants
  /\ RunIdle
  /\ arg = <<>>
  /\ ret = <<>>
  /\ phase = "app"

\* a user event is dispatched to the named handler
userEvent(name) ==
  /\ events < MaxEvents
  /\ events' = events + 1
  /\ handler' = name

\* a settled promise resumes the suspended run
resumed == events' = events /\ handler' = "settled"

NextApp ==
  \/ handleImageUpload /\ userEvent("handleImageUpload")
  \/ loadImageSettled /\ resumed
  \/ loadImageElementSettled /\ resumed
  \/ createWorkerSettled /\ resumed
  \/ setParametersSettled /\ resumed
  \/ recognizeSettled /\ resumed
  \/ terminateSettled /\ resumed
  \/ secondUpload /\ userEvent("secondUpload")
  \/ secondSettled /\ resumed
  \/ pageLoad /\ userEvent("pageLoad")
  \/ resetToUpload /\ userEvent("resetToUpload")
  \/ shuffleTiles /\ userEvent("shuffleTiles")
  \/ handleDragStart /\ userEvent("handleDragStart")
  \/ handleDragEnd /\ userEvent("handleDragEnd")
  \/ handleDrop /\ userEvent("handleDrop")
  \/ handleTouchStart /\ userEvent("handleTouchStart")
  \/ handleTouchMove /\ userEvent("handleTouchMove")
  \/ handleTouchEnd /\ userEvent("handleTouchEnd")

SpecApp == InitApp /\ [][NextApp]_vars

\* in SpecApp: no state breaks the typing of the model
AppTypeOK ==
  /\ rendered \in 0..16
  /\ draggedIndex \in {NullIndex} \cup 0..15
  /\ Len(tiles) <= 16

(***************************************************************************)
(* Properties of the whole application.                                    *)
(***************************************************************************)
\* a list of 16 strings
isTileSet(list) ==
  Len(list) = 16 /\ \A i \in DOMAIN list : list[i] \notin {Undefined, Null}

\* a run is suspended at an await
Suspended == pc # "idle" \/ second.pc # "idle"

\* C13: while a run is suspended, whatever handlers ran in between, the tile
\* list is empty or a complete 16-entry list and the stored value is absent,
\* an empty list or a complete 16-entry list
C13_RunIsAtomicForOtherHandlers ==
  Suspended =>
    /\ (tiles = <<>> \/ isTileSet(tiles))
    /\ (storage = <<>> \/ JSONparse(storage[1]) = <<>>
          \/ isTileSet(JSONparse(storage[1])))

\* the same entries with the same multiplicities
isPermutation(s, t) ==
  /\ Len(s) = Len(t)
  /\ \A x \in Range(s) \cup Range(t) :
       Cardinality({i \in DOMAIN s : s[i] = x})
         = Cardinality({i \in DOMAIN t : t[i] = x})

\* the list with the entries at the 0-based positions a and b exchanged
exchanged(list, a, b) ==
  [k \in DOMAIN list |->
     IF k = a + 1 THEN list[b + 1] ELSE IF k = b + 1 THEN list[a + 1] ELSE list[k]]

\* C19: on a 16-entry tile list every swap (drop, touch end) and every
\* shuffle leaves a permutation of it, and a swap either changes nothing or
\* exchanges the dragged position with one other position
C19_SwapAndShufflePermute ==
  [][(/\ handler' \in {"handleDrop", "handleTouchEnd", "shuffleTiles"}
      /\ isTileSet(tiles))
       => /\ isPermutation(tiles', tiles)
          /\ handler' # "shuffleTiles" =>
               \/ tiles' = tiles
               \/ /\ draggedIndex \in 0..15
                  /\ \E b \in (0..15) \ {draggedIndex} :
                       tiles' = exchanged(tiles, draggedIndex, b)]_vars

\* the stored value decodes to the tile list, or nothing is stored and the
\* list is empty
Persisted ==
  \/ storage = <<>> /\ tiles = <<>>
  \/ storage # <<>> /\ JSONparse(storage[1]) = tiles

\* what a page load does to the state a handler left
reloadRestores ==
  IF storage = <<>>
    THEN tiles' = <<>> /\ ~shown'
    ELSE /\ tiles' = tiles
         /\ storage' = storage
         /\ (Len(tiles) = 16 => (shown' /\ rendered' = 16))

\* C20: every handler and every completed run leaves the stored value
\* decoding to the tile list (absent with an empty list after clearState),
\* and a page load restores that list and shows it, or shows no grid when
\* nothing is stored
C20_StorageMirrorsTiles ==
  /\ []Persisted
  /\ [][handler' = "pageLoad" => reloadRestores]_vars

\* C21: a swap handler (drop, touch end) changes the tile list or the stored
\* value only when the dragged index is an integer in 0..15; a drop while
\* draggedIndex is null leaves both as they were
C21_SwapNeedsTwoIndices ==
  [][(/\ handler' \in {"handleDrop", "handleTouchEnd"}
      /\ (tiles' # tiles \/ storage' # storage))
       => draggedIndex \in 0..15]_vars

(***************************************************************************)
(* The touch handlers on a page that was loaded with a stored grid.        *)
(***************************************************************************)
\* the most touch events dispatched
MaxTouchEvents == 5

\* DOMContentLoaded has run loadState on the 16 tiles an earlier visit stored
InitTouch ==
  /\ variant \in Variants
  /\ tiles = expected
  /\ storage = <<JSONstringify(expected)>>
  /\ pc = "idle"
  /\ pass = 0
  /\ allFoundWords = <<>>
  /\ result = NoResult
  /\ extractedTiles = <<>>
  /\ workers = 0
  /\ outcome = "none"
  /\ stream = <<>>
  /\ failed = 0
  /\ branch = "none"
  /\ decodable = TRUE
  /\ created = 0
  /\ recognized = <<>>
  /\ draggedTile = NoTile
  /\ draggedIndex = NullIndex
  /\ touchCurrentTile = NoTile
  /\ touchClone = NoClone
  /\ attached = {}
  /\ touches = 0
  /\ tilesNull = Undefined
  /\ rendered = 16
  /\ shown = TRUE
  /\ second = SecondIdle
  /\ events = 0
  /\ handler = "none"
  /\ arg = <<>>
  /\ ret = <<>>
  /\ phase = "touch"

\* a touch event is dispatched to the named handler
touchEvent(name) ==
  /\ events < MaxTouchEvents
  /\ events' = events + 1
  /\ handler' = name

NextTouch ==
  \/ handleTouchStart /\ touchEvent("handleTouchStart")
  \/ handleTouchMove /\ touchEvent("handleTouchMove")
  \/ handleTouchEnd /\ touchEvent("handleTouchEnd")

SpecTouch == InitTouch /\ [][NextTouch]_vars

\* C23: at most one drag clone is attached to the document, and once every
\* started touch has ended none is attached and touchClone, touchCurrentTile
\* and draggedIndex are null
C23_TouchesLeaveNoClone ==
  /\ Cardinality(attached) <= 1
  /\ touches = 0 =>
       /\ attached = {}
       /\ touchClone = NoClone
       /\ touchCurrentTile = NoTile
       /\ draggedIndex = NullIndex

\* the places (row, position) of the rows at which a word stands
placesOf(rows, w) ==
  {<<r, k>> \in (DOMAIN rows) \X (1..MaxClusterWords + 1) :
     k \in DOMAIN rows[r] /\ rows[r][k] = w}

\* C24: clusterIntoRows returns 4 rows in which every input word stands at
\* exactly one place and nothing else stands, the words of an earlier row
\* have a centerY not above that of the words of a later row, and an empty
\* input gives 4 empty rows
C24_RowsPartitionInOrder ==
  phase = "clusterIntoRows" =>
    /\ Len(ret) = 4
    /\ \A i \in DOMAIN arg : Cardinality(placesOf(ret, arg[i])) = 1
    /\ \A r \in DOMAIN ret : Range(ret[r]) \subseteq Range(arg)
    /\ \A r1, r2 \in DOMAIN ret :
         r1 < r2 =>
           \A k1 \in DOMAIN ret[r1], k2 \in DOMAIN ret[r2] :
             centerY2(ret[r1][k1]) <= centerY2(ret[r2][k2])
    /\ arg = <<>> => \A r \in DOMAIN ret : ret[r] = <<>>

\* 17 words reported out of order whose bands are uneven: the strict split
C24_Witness ==
  /\ phase = "clusterIntoRows"
  /\ Len(arg) = 17
  /\ \E r \in 0..3 : bandPopulation(arg, r) < 2 \/ bandPopulation(arg, r) > 6
  /\ \E i \in DOMAIN arg : i < Len(arg) /\ centerY2(arg[i]) > centerY2(arg[i + 1])
  /\ ret = strictSplit(arg)
  /\ Len(ret[4]) = 5

\* the run that handleImageUpload started has ended
RunEnded == pc = "idle" /\ outcome \in {"ok", "error"}

\* C22: when a run has ended, with the tiles or with the error, every worker
\* it created has been terminated, and during a run at most one worker is
\* alive
C22_WorkersTerminated ==
  /\ workers <= 1
  /\ RunEnded => workers = 0

====
